---- MODULE Spec2Model ----
(***************************************************************************)
(* A model of the note-segmentation and lyric/note alignment core of       *)
(* AudioVisualizer (audio_processing/src/audio2midi).                      *)
(*                                                                         *)
(* Times are integers (ticks); a pitch is an exact rational <<num, den>>   *)
(* in semitones (MIDI note number), den > 0, so that the weighted means    *)
(* the code computes in floating point are computed exactly.               *)
(*                                                                         *)
(* Each function of the source is a little state machine: its arguments    *)
(* and locals are the state, with one action per loop iteration.  There is *)
(* one specification per function or group of functions:                   *)
(*   SpecMatch      match_segments_and_notes       (note_utils.py)         *)
(*   SpecMerge      merge_short_notes              (note_utils.py)         *)
(*   SpecSmooth     smooth_vibrato                 (note_utils.py)         *)
(*   SpecSeg        cluster_notes_with_confidence  (pitch_extraction.py)   *)
(*                  midi_notes_to_intervals        (note_utils.py)         *)
(*   SpecExport     export_segments    (generate_midi_with_lyrics.py)      *)
(*   SpecPipeline   process_audio                  (main.py)               *)
(***************************************************************************)
EXTENDS Integers, Sequences, FiniteSets

VARIABLES
    \* ---- locals shared by name between the functions
    notes,             \* argument: list of (start, end, note)
    i, j,              \* loop indices
    pc,                \* "start" | "loop" | "done"
    run,               \* 1: first call, 2: the call on the first call's result
    first_result,      \* the first call's result, kept for comparison
    \* ---- match_segments_and_notes
    segments,          \* argument: list of {"start","end","text"}
    segments_sorted,   \* note_utils.py:142
    notes_sorted,      \* note_utils.py:143
    matched,           \* the result list, note_utils.py:140
    \* ---- merge_short_notes, smooth_vibrato
    min_duration,      \* argument (ticks)
    cent_tolerance,    \* argument (cents)
    sorted_notes,      \* note_utils.py:202, 264
    merged_notes,      \* the result list, note_utils.py:203
    time_window,       \* argument of smooth_vibrato (ticks)
    smoothed_notes,    \* the result list, note_utils.py:265
    \* ---- cluster_notes_with_confidence, midi_notes_to_intervals
    midi_values,            \* per-frame pitch, or NaN
    confidence_values,      \* per-frame confidence (hundredths)
    frame_duration,         \* ticks between two frames (hop_length / sr)
    confidence_threshold,   \* argument (hundredths)
    current_note,           \* pitch of the open note, or None
    note_start,             \* note_start_time / start_frame of the open note
    current_confidence_sum, \* pitch_extraction.py:183
    current_frame_count,    \* pitch_extraction.py:184
    note_events,            \* result of cluster_notes_with_confidence's loop
    intervals,              \* result of midi_notes_to_intervals
    fn,                     \* which of the two segmenters is running
    smooth_window,          \* argument of cluster_notes_with_confidence
    final_note_events,      \* what cluster_notes_with_confidence returns
    \* ---- process_audio, export_segments
    stage,             \* where process_audio is
    raised,            \* the exception raised, or "none"
    format,            \* args.output_format / the format argument
    calls,             \* the serializers called, in order
    output_file,       \* what was written to the output path, or None
    stages_run,        \* the stages process_audio has entered, in order
    stderr,            \* the error reports printed
    exit_code          \* -1 while running, 0 returned, 1 sys.exit(1)

commonVars == <<notes, i, j, pc, run, first_result>>
matchVars == <<segments, segments_sorted, notes_sorted, matched>>
mergeVars == <<min_duration, cent_tolerance, sorted_notes, merged_notes>>
smoothVars == <<time_window, smoothed_notes>>
segVars == <<midi_values, confidence_values, frame_duration,
             confidence_threshold, current_note, note_start,
             current_confidence_sum, current_frame_count, note_events,
             intervals, fn, smooth_window, final_note_events>>

pipelineVars == <<stage, raised, format, calls, output_file, stages_run,
                  stderr, exit_code>>

vars == <<commonVars, matchVars, mergeVars, smoothVars, segVars, pipelineVars>>

\* The locals of the functions that are not running.
MatchIdle ==
    /\ segments = <<>>
    /\ segments_sorted = <<>>
    /\ notes_sorted = <<>>
    /\ matched = <<>>

MergeIdle ==
    /\ min_duration = 0
    /\ cent_tolerance = 0
    /\ sorted_notes = <<>>
    /\ merged_notes = <<>>

SmoothIdle ==
    /\ time_window = 0
    /\ smoothed_notes = <<>>

\* None is the empty tuple and NaN the fraction 0/0: both compare with a pitch.
None == <<>>
NaN == <<0, 0>>

SegIdle ==
    /\ midi_values = <<>>
    /\ confidence_values = <<>>
    /\ frame_duration = 0
    /\ confidence_threshold = 0
    /\ current_note = None
    /\ note_start = None
    /\ current_confidence_sum = 0
    /\ current_frame_count = 0
    /\ note_events = <<>>
    /\ intervals = <<>>
    /\ fn = "none"
    /\ smooth_window = 0
    /\ final_note_events = <<>>

PipelineIdle ==
    /\ stage = "none"
    /\ raised = "none"
    /\ format = "none"
    /\ calls = <<>>
    /\ output_file = None
    /\ stages_run = <<>>
    /\ stderr = <<>>
    /\ exit_code = -1

(***************************************************************************)
(* Bounds of the model.                                                    *)
(***************************************************************************)
MaxTime == 3      \* times range over 0..MaxTime
MaxLen  == 2      \* longest input list

Times == 0..MaxTime

Min2(a, b) == IF a < b THEN a ELSE b
Max2(a, b) == IF a > b THEN a ELSE b

SeqToSet(s) == {s[k] : k \in 1..Len(s)}

(***************************************************************************)
(* sorted(xs, key=lambda x: x.start): Python's sort is stable, so equal    *)
(* keys keep their input order.                                            *)
(***************************************************************************)
RECURSIVE InsertByStart(_, _)
InsertByStart(s, x) ==
    IF s = <<>> THEN <<x>>
    ELSE IF s[Len(s)].start <= x.start THEN Append(s, x)
    ELSE Append(InsertByStart(SubSeq(s, 1, Len(s) - 1), x), s[Len(s)])

RECURSIVE SortPrefix(_, _)
SortPrefix(s, n) ==
    IF n = 0 THEN <<>> ELSE InsertByStart(SortPrefix(s, n - 1), s[n])

\* The list left in the caller's order.
unsorted(s) == s

sorted(s) == SortPrefix(s, Len(s))

IsSortedByStart(s) == \A k \in 1..(Len(s) - 1) : s[k].start <= s[k + 1].start

(***************************************************************************)
(* match_segments_and_notes                                                *)
(***************************************************************************)
Texts == {"la"}
NoteVals == {<<67, 1>>}

\* Intervals with end > start (spec.md, section 3: "end > start").
Intervals == {<<a, b>> \in Times \X Times : a < b}

SegmentInputs == {[start |-> iv[1], end |-> iv[2], text |-> t] :
                    iv \in Intervals, t \in Texts}
NoteInputs == {[start |-> iv[1], end |-> iv[2], note |-> v] :
                    iv \in Intervals, v \in NoteVals}

\* note_utils.py:151-152
OverlapStart(w, n) == Max2(w.start, n.start)
OverlapEnd(w, n) == Min2(w.end, n.end)

\* A zero-length overlap emitted too.
EmitNonStrict(overlap_start, overlap_end) == overlap_start <= overlap_end

\* note_utils.py:154
EmitStrict(overlap_start, overlap_end) == overlap_start < overlap_end

\* On a tie the text pointer advances.
AdvanceTextOnTie(w, n) == w.end <= n.end

\* note_utils.py:166: the text pointer advances, otherwise the note pointer
AdvanceText(w, n) == w.end < n.end

MatchedRecord(w, n) ==
    [text_segment  |-> w,
     note_segment  |-> [start |-> n.start, end |-> n.end, note |-> n.note],
     overlap_start |-> OverlapStart(w, n),
     overlap_end   |-> OverlapEnd(w, n)]

MatchInit ==
    /\ \E k \in 0..MaxLen : segments \in [1..k -> SegmentInputs]
    /\ \E k \in 0..MaxLen : notes \in [1..k -> NoteInputs]
    /\ segments_sorted = <<>>
    /\ notes_sorted = <<>>
    /\ i = 0
    /\ j = 0
    /\ matched = <<>>
    /\ pc = "start"
    /\ run = 1
    /\ first_result = <<>>
    /\ MergeIdle
    /\ SmoothIdle
    /\ SegIdle
    /\ PipelineIdle

\* note_utils.py:140-143
MatchStart ==
    /\ pc = "start"
    /\ matched' = <<>>
    /\ i' = 0
    /\ j' = 0
    /\ segments_sorted' = sorted(segments)
    /\ notes_sorted' = sorted(notes)
    /\ pc' = "loop"
    /\ UNCHANGED <<segments, notes, run, first_result, mergeVars, smoothVars, segVars,
                   pipelineVars>>

\* note_utils.py:145-169, one iteration of the while loop (0-based i, j)
MatchStep ==
    /\ pc = "loop"
    /\ i < Len(segments_sorted)
    /\ j < Len(notes_sorted)
    /\ LET w == segments_sorted[i + 1]
           n == notes_sorted[j + 1]
       IN /\ matched' = IF EmitStrict(OverlapStart(w, n), OverlapEnd(w, n))
                        THEN Append(matched, MatchedRecord(w, n))
                        ELSE matched
          /\ IF AdvanceText(w, n)
             THEN i' = i + 1 /\ j' = j
             ELSE j' = j + 1 /\ i' = i
    /\ UNCHANGED <<segments, notes, segments_sorted, notes_sorted, pc, run,
                   first_result, mergeVars, smoothVars, segVars,
                   pipelineVars>>

\* note_utils.py:145 (loop exit), 171-172
MatchReturn ==
    /\ pc = "loop"
    /\ ~(i < Len(segments_sorted) /\ j < Len(notes_sorted))
    /\ pc' = "done"
    /\ UNCHANGED <<segments, notes, segments_sorted, notes_sorted, i, j,
                   matched, run, first_result, mergeVars, smoothVars, segVars,
                   pipelineVars>>

\* The note intervals (start, end, note) of a result's records, in order.
NoteSegmentsOf(m) == [k \in 1..Len(m) |-> m[k].note_segment]

\* A second call, on the original segments and the first call's note
\* intervals (note_utils.py:97-100 called with the result of 155-164).
MatchAgain ==
    /\ pc = "done"
    /\ run = 1
    /\ first_result' = matched
    /\ notes' = NoteSegmentsOf(matched)
    /\ run' = 2
    /\ pc' = "start"
    /\ UNCHANGED <<segments, segments_sorted, notes_sorted, i, j, matched,
                   mergeVars, smoothVars, segVars,
                   pipelineVars>>

MatchNext == MatchStart \/ MatchStep \/ MatchReturn \/ MatchAgain

SpecMatch == MatchInit /\ [][MatchNext]_vars

\* Two intervals share time.
TimeOverlap(w, n) == Max2(w.start, n.start) < Min2(w.end, n.end)

\* C2: every record of the result has overlap_start < overlap_end, with
\* overlap_start the larger of its own text and note starts and overlap_end
\* the smaller of its own text and note ends.
C2_OverlapBounds ==
    \A k \in 1..Len(matched) :
        LET r == matched[k]
            t == r.text_segment
            n == r.note_segment
        IN /\ r.overlap_start < r.overlap_end
           /\ r.overlap_start >= t.start /\ r.overlap_start >= n.start
           /\ r.overlap_start \in {t.start, n.start}
           /\ r.overlap_end <= t.end /\ r.overlap_end <= n.end
           /\ r.overlap_end \in {t.end, n.end}

C2_Witness ==
    /\ pc = "done"
    /\ Len(matched) >= 2
    /\ \E k \in 1..Len(matched) :
          /\ matched[k].overlap_start > matched[k].text_segment.start
          /\ matched[k].overlap_end < matched[k].text_segment.end

\* C3: for start-sorted lists (intervals of one list may overlap each other)
\* the result holds a record for every text segment and note that share time.
C3_CoversEveryOverlap ==
    (pc = "done" /\ run = 1 /\ IsSortedByStart(segments) /\ IsSortedByStart(notes))
    => \A a \in 1..Len(segments), b \in 1..Len(notes) :
          TimeOverlap(segments[a], notes[b])
          => \E k \in 1..Len(matched) :
                /\ matched[k].text_segment = segments[a]
                /\ matched[k].note_segment = notes[b]

\* C4: a second call on the original segments and the note intervals of the
\* first call's records returns the same set of records.
C4_Idempotent ==
    (pc = "done" /\ run = 2) => SeqToSet(matched) = SeqToSet(first_result)

C4_Witness ==
    /\ pc = "done"
    /\ run = 2
    /\ Len(first_result) >= 3
    /\ Len(notes) > Cardinality(SeqToSet(notes))

\* C10: the result is empty when the segment list is empty, when the note
\* list is empty, and when no segment shares time with any note.
C10_EmptyResult ==
    (/\ pc = "done"
     /\ \/ segments = <<>>
        \/ notes = <<>>
        \/ \A a \in 1..Len(segments), b \in 1..Len(notes) :
              ~TimeOverlap(segments[a], notes[b]))
    => matched = <<>>

C10_Witness ==
    /\ pc = "done"
    /\ run = 1
    /\ Len(segments) = 2
    /\ Len(notes) = 2
    /\ i + j >= 3
    /\ matched = <<>>

\* The sweep is at a pair: neither list is exhausted.
AtPair == pc = "loop" /\ i < Len(segments_sorted) /\ j < Len(notes_sorted)

\* C14: a step of the sweep at a pair moves exactly one pointer, by one, and
\* leaves the other: the text pointer when text.end < note.end, otherwise
\* (also on a tie) the note pointer; it adds at most one record.  With either
\* list exhausted the sweep ends where it is.  So for n segments and m notes
\* the steps taken, i + j, and the records emitted never exceed n + m - 1.
C14_SweepAdvancesOnePointer ==
    /\ [][AtPair
           => /\ IF segments_sorted[i + 1].end < notes_sorted[j + 1].end
                 THEN i' = i + 1 /\ j' = j
                 ELSE i' = i /\ j' = j + 1
              /\ pc' = "loop"
              /\ Len(matched') <= Len(matched) + 1]_vars
    /\ [][(pc = "loop" /\ ~AtPair) => (pc' = "done" /\ i' = i /\ j' = j)]_vars
    /\ [](pc \in {"loop", "done"}
            => /\ i <= Len(segments)
               /\ j <= Len(notes)
               /\ Len(matched) <= i + j
               /\ i + j <= Max2(0, Len(segments) + Len(notes) - 1))

C14_Witness ==
    /\ pc = "done"
    /\ run = 1
    /\ Len(segments) = 2
    /\ Len(notes) = 2
    /\ segments_sorted[1].end = notes_sorted[1].end
    /\ i = 1
    /\ j = 2
    /\ Len(matched) = 3

(***************************************************************************)
(* Pitches.  The code holds a pitch as a float and divides; here a pitch   *)
(* is the exact fraction <<num, den>> with den > 0, in lowest terms.       *)
(***************************************************************************)
Abs(x) == IF x < 0 THEN -x ELSE x

RECURSIVE Gcd(_, _)
Gcd(a, b) == IF b = 0 THEN a ELSE Gcd(b, a % b)

Frac(n, d) ==
    LET g == Gcd(Abs(n), Abs(d))
    IN IF d < 0 THEN <<(-n) \div g, (-d) \div g>> ELSE <<n \div g, d \div g>>

\* p <= q for fractions
FracLeq(p, q) == p[1] * q[2] <= q[1] * p[2]

Duration(n) == n.end - n.start

\* note_utils.py:219, 227: abs(note - other) <= cent_tolerance / 100.0
WithinTolerance(p, q, tol) ==
    Abs(p[1] * q[2] - q[1] * p[2]) * 100 <= tol * p[2] * q[2]

\* note_utils.py:221, 229: (p * wp + q * wq) / (wp + wq)
WeightedPitch(p, wp, q, wq) ==
    Frac(p[1] * q[2] * wp + q[1] * p[2] * wq, p[2] * q[2] * (wp + wq))

(***************************************************************************)
(* merge_short_notes                                                       *)
(***************************************************************************)
MaxNoteTime == 2   \* note times range over 0..MaxNoteTime
MaxNotes == 4      \* longest note list

Pitches == {<<60, 1>>, <<61, 1>>, <<63, 1>>}
MinDurations == {2}
CentTolerances == {100}      \* note_utils.py:185, the default

NoteTimes == 0..MaxNoteTime
RefinerNotes == {[start |-> a, end |-> b, note |-> p] :
                    a \in NoteTimes, b \in NoteTimes, p \in Pitches}

\* Notes have end > start and come ordered by start; they may overlap in time.
\* (Both refiner passes sort first: a start-ordered list is what every input
\* becomes at lines 202 and 264.)
WellFormedNotes == {n \in RefinerNotes : n.start < n.end}

\* The argument is a list of at most MaxNotes such notes, ordered by start.
RefinerInput(s) ==
    /\ \E k \in 0..MaxNotes : s \in [1..k -> WellFormedNotes]
    /\ IsSortedByStart(s)

Last(s) == s[Len(s)]
ReplaceLast(s, x) == [s EXCEPT ![Len(s)] = x]

\* The short note put in the place of the previous note.
ReplacedByCur(prev, cur) ==
    [start |-> cur.start,
     end   |-> cur.end,
     note  |-> WeightedPitch(prev.note, Duration(prev), cur.note, Duration(cur))]

\* note_utils.py:221
MergedWithPrev(prev, cur) ==
    [start |-> prev.start,
     end   |-> cur.end,
     note  |-> WeightedPitch(prev.note, Duration(prev), cur.note, Duration(cur))]

\* note_utils.py:229
MergedWithNext(cur, next) ==
    [start |-> cur.start,
     end   |-> next.end,
     note  |-> WeightedPitch(cur.note, Duration(cur), next.note, Duration(next))]

MergeInit ==
    /\ RefinerInput(notes)
    /\ min_duration \in MinDurations
    /\ cent_tolerance \in CentTolerances
    /\ sorted_notes = <<>>
    /\ merged_notes = <<>>
    /\ i = 0
    /\ j = 0
    /\ pc = "start"
    /\ run = 1
    /\ first_result = <<>>
    /\ MatchIdle
    /\ SmoothIdle
    /\ SegIdle
    /\ PipelineIdle

\* note_utils.py:198-204
MergeStart ==
    /\ pc = "start"
    /\ IF notes = <<>>
       THEN /\ pc' = "done"
            /\ sorted_notes' = <<>>
       ELSE /\ pc' = "loop"
            /\ sorted_notes' = sorted(notes)
    /\ merged_notes' = <<>>
    /\ i' = 0
    /\ UNCHANGED <<notes, j, run, first_result, min_duration, cent_tolerance,
                   matchVars, smoothVars, segVars,
                   pipelineVars>>

\* The note the loop is looking at (0-based i), its neighbours.
CurNote == sorted_notes[i + 1]
HasPrev == merged_notes # <<>>
HasNext == i + 1 < Len(sorted_notes)
PrevNote == Last(merged_notes)
NextNote == sorted_notes[i + 2]
InLoop == pc = "loop" /\ i < Len(sorted_notes)
IsShort(n) == Duration(n) < min_duration

\* The next note looked at whether or not there is a previous accepted note.
TriesNextAlways == TRUE

\* note_utils.py:217, 225: "elif": the next note is looked at only when
\* there is no previous accepted note.
TriesNext == ~HasPrev

\* note_utils.py:238-240
MergeAccept ==
    /\ InLoop
    /\ ~IsShort(CurNote)
    /\ merged_notes' = Append(merged_notes, CurNote)
    /\ i' = i + 1
    /\ UNCHANGED <<notes, j, pc, run, first_result, min_duration,
                   cent_tolerance, sorted_notes, matchVars, smoothVars, segVars,
                   pipelineVars>>

\* note_utils.py:217-222, 240
MergeIntoPrev ==
    /\ InLoop
    /\ IsShort(CurNote)
    /\ HasPrev
    /\ WithinTolerance(CurNote.note, PrevNote.note, cent_tolerance)
    /\ merged_notes' = ReplaceLast(merged_notes, MergedWithPrev(PrevNote, CurNote))
    /\ i' = i + 1
    /\ UNCHANGED <<notes, j, pc, run, first_result, min_duration,
                   cent_tolerance, sorted_notes, matchVars, smoothVars, segVars,
                   pipelineVars>>

\* note_utils.py:225-232
MergeIntoNext ==
    /\ InLoop
    /\ IsShort(CurNote)
    /\ ~(HasPrev /\ WithinTolerance(CurNote.note, PrevNote.note, cent_tolerance))
    /\ TriesNext
    /\ HasNext
    /\ WithinTolerance(CurNote.note, NextNote.note, cent_tolerance)
    /\ sorted_notes' = [sorted_notes EXCEPT ![i + 2] = MergedWithNext(CurNote, NextNote)]
    /\ i' = i + 1
    /\ UNCHANGED <<notes, j, pc, run, first_result, min_duration,
                   cent_tolerance, merged_notes, matchVars, smoothVars, segVars,
                   pipelineVars>>

\* The short note kept instead of ignored.
KeepShortNote == Append(merged_notes, CurNote)

\* note_utils.py:234-237: the short note is ignored
AfterDrop == merged_notes

MergeDrop ==
    /\ InLoop
    /\ IsShort(CurNote)
    /\ ~(HasPrev /\ WithinTolerance(CurNote.note, PrevNote.note, cent_tolerance))
    /\ ~(TriesNext /\ HasNext
          /\ WithinTolerance(CurNote.note, NextNote.note, cent_tolerance))
    /\ merged_notes' = AfterDrop
    /\ i' = i + 1
    /\ UNCHANGED <<notes, j, pc, run, first_result, min_duration,
                   cent_tolerance, sorted_notes, matchVars, smoothVars, segVars,
                   pipelineVars>>

\* note_utils.py:206 (loop exit), 242
MergeReturn ==
    /\ pc = "loop"
    /\ ~(i < Len(sorted_notes))
    /\ pc' = "done"
    /\ UNCHANGED <<notes, i, j, run, first_result, mergeVars, matchVars,
                   smoothVars, segVars,
                   pipelineVars>>

\* A second call on the first call's result, with the same parameters.
MergeAgain ==
    /\ pc = "done"
    /\ run = 1
    /\ first_result' = merged_notes
    /\ notes' = merged_notes
    /\ run' = 2
    /\ pc' = "start"
    /\ UNCHANGED <<i, j, mergeVars, matchVars, smoothVars, segVars,
                   pipelineVars>>

MergeNext ==
    \/ MergeStart
    \/ MergeAccept
    \/ MergeIntoPrev
    \/ MergeIntoNext
    \/ MergeDrop
    \/ MergeReturn
    \/ MergeAgain

SpecMerge == MergeInit /\ [][MergeNext]_vars

\* C5: in the result no two neighbouring notes are both shorter than
\* min_duration with pitches within cent_tolerance of each other.
C5_NoMergeableNeighbours ==
    (pc = "done" /\ run = 1)
    => \A k \in 1..(Len(merged_notes) - 1) :
          ~(/\ IsShort(merged_notes[k])
            /\ IsShort(merged_notes[k + 1])
            /\ WithinTolerance(merged_notes[k].note, merged_notes[k + 1].note,
                               cent_tolerance))

\* C7: a second pass over the result of the first returns as many notes.
C7_SecondPassSameCount ==
    (pc = "done" /\ run = 2) => Len(merged_notes) = Len(first_result)

\* The loop is at a short note that neither neighbour is close to in pitch.
IsolatedShortNote ==
    /\ InLoop
    /\ IsShort(CurNote)
    /\ HasPrev => ~WithinTolerance(CurNote.note, PrevNote.note, cent_tolerance)
    /\ HasNext => ~WithinTolerance(CurNote.note, NextNote.note, cent_tolerance)

\* C9: a short note whose previous accepted note (if any) and next note (if
\* any) both differ from it by more than cent_tolerance is dropped: the step
\* leaves the accepted notes and the notes still to come as they are, and
\* moves on to the next note.
C9_IsolatedShortNoteDropped ==
    [][IsolatedShortNote
        => /\ merged_notes' = merged_notes
           /\ sorted_notes' = sorted_notes
           /\ i' = i + 1
           /\ pc' = "loop"]_vars

C9_Witness ==
    /\ pc = "done"
    /\ run = 1
    /\ Len(notes) = 3
    /\ IsShort(notes[2])
    /\ ~WithinTolerance(notes[2].note, notes[1].note, cent_tolerance)
    /\ ~WithinTolerance(notes[2].note, notes[3].note, cent_tolerance)
    /\ merged_notes = <<notes[1], notes[3]>>

\* The loop is at a short note with a previous accepted note that is not
\* within cent_tolerance of it and a next note that is.
ShortNoteCloseToNextOnly ==
    /\ InLoop
    /\ IsShort(CurNote)
    /\ HasPrev
    /\ ~WithinTolerance(CurNote.note, PrevNote.note, cent_tolerance)
    /\ HasNext
    /\ WithinTolerance(CurNote.note, NextNote.note, cent_tolerance)

\* C15: a short note whose previous accepted note is not within
\* cent_tolerance and whose next note is, is merged into the next note: the
\* step replaces the next note by one that starts at the short note's start
\* and ends at the next note's end, and leaves the accepted notes alone.
C15_MergesIntoNextAfterPrevFails ==
    [][ShortNoteCloseToNextOnly
        => /\ sorted_notes'[i + 2].start = CurNote.start
           /\ sorted_notes'[i + 2].end = NextNote.end
           /\ merged_notes' = merged_notes
           /\ i' = i + 1]_vars

CoveringNote(a, b) ==
    [start |-> Min2(a.start, b.start),
     end   |-> Max2(a.end, b.end),
     note  |-> WeightedPitch(a.note, Duration(a), b.note, Duration(b))]

\* C17: a step that merges a short note into the previous accepted note, or
\* into the next note, leaves in its place the note from the smaller of the
\* two starts to the larger of the two ends, at the duration-weighted average
\* of the two pitches.
C17_MergedSpanCoversBoth ==
    /\ [][(/\ InLoop
           /\ IsShort(CurNote)
           /\ HasPrev
           /\ WithinTolerance(CurNote.note, PrevNote.note, cent_tolerance))
          => Last(merged_notes') = CoveringNote(PrevNote, CurNote)]_vars
    /\ [][(/\ InLoop
           /\ IsShort(CurNote)
           /\ ~HasPrev
           /\ HasNext
           /\ WithinTolerance(CurNote.note, NextNote.note, cent_tolerance))
          => sorted_notes'[i + 2] = CoveringNote(CurNote, NextNote)]_vars

(***************************************************************************)
(* merge_short_notes on the lists a segmenter produces: ordered by start   *)
(* and pairwise non-overlapping, over a time range long enough for a note  *)
(* of min_duration to be followed by two short ones.                       *)
(***************************************************************************)
MaxDisjointTime == 4    \* note times range over 0..MaxDisjointTime
MaxDisjointNotes == 3   \* longest note list

DisjointNotes == {[start |-> a, end |-> b, note |-> p] :
                     a \in 0..MaxDisjointTime, b \in 0..MaxDisjointTime,
                     p \in Pitches}

\* Each note ends no later than the next begins.
NonOverlapping(s) == \A k \in 1..(Len(s) - 1) : s[k].end <= s[k + 1].start

DisjointInit ==
    /\ \E k \in 0..MaxDisjointNotes :
          notes \in [1..k -> {n \in DisjointNotes : n.start < n.end}]
    /\ IsSortedByStart(notes)
    /\ NonOverlapping(notes)
    /\ min_duration \in MinDurations
    /\ cent_tolerance \in CentTolerances
    /\ sorted_notes = <<>>
    /\ merged_notes = <<>>
    /\ i = 0
    /\ j = 0
    /\ pc = "start"
    /\ run = 1
    /\ first_result = <<>>
    /\ MatchIdle
    /\ SmoothIdle
    /\ SegIdle
    /\ PipelineIdle

SpecDisjoint == DisjointInit /\ [][MergeNext]_vars

\* C22: when the argument of merge_short_notes is ordered by start and
\* pairwise non-overlapping, every note of the returned list lasts at least
\* min_duration, and the returned list is again ordered by start and
\* pairwise non-overlapping.
C22_OutputLongAndDisjoint ==
    (pc = "done" /\ IsSortedByStart(notes) /\ NonOverlapping(notes))
        => /\ \A k \in 1..Len(merged_notes) :
                 Duration(merged_notes[k]) >= min_duration
           /\ IsSortedByStart(merged_notes)
           /\ NonOverlapping(merged_notes)

\* The first call has returned one note made of three: a short first note
\* merged into the next, and a short last note merged into the result.
C22_Witness ==
    /\ pc = "done"
    /\ run = 1
    /\ Len(notes) = 3
    /\ IsShort(notes[1])
    /\ IsShort(notes[3])
    /\ Len(merged_notes) = 1
    /\ merged_notes[1].start = notes[1].start
    /\ merged_notes[1].end = notes[3].end

(***************************************************************************)
(* smooth_vibrato                                                          *)
(***************************************************************************)
TimeWindows == {2}
VibratoTolerances == {200}   \* note_utils.py:247, the default

\* note_utils.py:274-279: the index one past the last note of the list whose
\* start lies before window_end, counting from position `from` (0-based).
RECURSIVE WindowStop(_, _, _)
WindowStop(s, from, window_end) ==
    IF from < Len(s) /\ s[from + 1].start < window_end
    THEN WindowStop(s, from + 1, window_end)
    ELSE from

\* window_notes of the window opened at position `from` (0-based)
WindowNotes(s, from, width) ==
    SubSeq(s, from + 1, WindowStop(s, from, s[from + 1].start + width))

\* The highest and the lowest pitch of a non-empty list of notes.
MaxPitch(w) ==
    CHOOSE p \in {w[k].note : k \in 1..Len(w)} :
        \A k \in 1..Len(w) : FracLeq(w[k].note, p)
MinPitch(w) ==
    CHOOSE p \in {w[k].note : k \in 1..Len(w)} :
        \A k \in 1..Len(w) : FracLeq(p, w[k].note)

\* note_utils.py:284-286: (max(pitches) - min(pitches)) * 100 <= cent_tolerance
RangeWithin(w, tol) ==
    LET hi == MaxPitch(w)
        lo == MinPitch(w)
    IN (hi[1] * lo[2] - lo[1] * hi[2]) * 100 <= tol * hi[2] * lo[2]

\* note_utils.py:281, 286
Collapsible(w, tol) == Len(w) > 1 /\ RangeWithin(w, tol)

RECURSIVE TotalDuration(_)
TotalDuration(w) ==
    IF w = <<>> THEN 0 ELSE Duration(w[1]) + TotalDuration(Tail(w))

\* sum((n.end - n.start) * n.note for n in w), as a fraction
RECURSIVE WeightedSum(_)
WeightedSum(w) ==
    IF w = <<>> THEN <<0, 1>>
    ELSE LET r == WeightedSum(Tail(w))
             p == w[1].note
         IN Frac(Duration(w[1]) * p[1] * r[2] + r[1] * p[2], p[2] * r[2])

\* note_utils.py:288-294
CollapsedNote(w) ==
    [start |-> w[1].start,
     end   |-> w[Len(w)].end,
     note  |-> LET ws == WeightedSum(w)
               IN Frac(ws[1], ws[2] * TotalDuration(w))]

SmoothInit ==
    /\ RefinerInput(notes)
    /\ time_window \in TimeWindows
    /\ cent_tolerance \in VibratoTolerances
    /\ min_duration = 0
    /\ sorted_notes = <<>>
    /\ merged_notes = <<>>
    /\ smoothed_notes = <<>>
    /\ i = 0
    /\ j = 0
    /\ pc = "start"
    /\ run = 1
    /\ first_result = <<>>
    /\ MatchIdle
    /\ SegIdle
    /\ PipelineIdle

\* note_utils.py:260-266
SmoothStart ==
    /\ pc = "start"
    /\ IF notes = <<>>
       THEN /\ pc' = "done"
            /\ sorted_notes' = <<>>
       ELSE /\ pc' = "loop"
            /\ sorted_notes' = sorted(notes)
    /\ smoothed_notes' = <<>>
    /\ i' = 0
    /\ j' = 0
    /\ UNCHANGED <<notes, run, first_result, min_duration, cent_tolerance,
                   merged_notes, time_window, matchVars, segVars,
                   pipelineVars>>

\* note_utils.py:268-296: the window is collapsed into one note
SmoothCollapse ==
    /\ pc = "loop"
    /\ i < Len(sorted_notes)
    /\ LET w == WindowNotes(sorted_notes, i, time_window)
       IN /\ Collapsible(w, cent_tolerance)
          /\ smoothed_notes' = Append(smoothed_notes, CollapsedNote(w))
          /\ j' = i + Len(w)
          /\ i' = i + Len(w)
    /\ UNCHANGED <<notes, pc, run, first_result, min_duration, cent_tolerance,
                   sorted_notes, merged_notes, time_window, matchVars, segVars,
                   pipelineVars>>

\* note_utils.py:268-286, 298-299: the current note is kept as it is
SmoothKeep ==
    /\ pc = "loop"
    /\ i < Len(sorted_notes)
    /\ LET w == WindowNotes(sorted_notes, i, time_window)
       IN /\ ~Collapsible(w, cent_tolerance)
          /\ smoothed_notes' = Append(smoothed_notes, sorted_notes[i + 1])
          /\ j' = i + Len(w)
          /\ i' = i + 1
    /\ UNCHANGED <<notes, pc, run, first_result, min_duration, cent_tolerance,
                   sorted_notes, merged_notes, time_window, matchVars, segVars,
                   pipelineVars>>

\* note_utils.py:268 (loop exit), 301
SmoothReturn ==
    /\ pc = "loop"
    /\ ~(i < Len(sorted_notes))
    /\ pc' = "done"
    /\ UNCHANGED <<notes, i, j, run, first_result, mergeVars, smoothVars,
                   matchVars, segVars,
                   pipelineVars>>

\* A second call on the first call's result, with the same parameters.
SmoothAgain ==
    /\ pc = "done"
    /\ run = 1
    /\ first_result' = smoothed_notes
    /\ notes' = smoothed_notes
    /\ run' = 2
    /\ pc' = "start"
    /\ UNCHANGED <<i, j, mergeVars, smoothVars, matchVars, segVars,
                   pipelineVars>>

SmoothNext ==
    \/ SmoothStart
    \/ SmoothCollapse
    \/ SmoothKeep
    \/ SmoothReturn
    \/ SmoothAgain

SpecSmooth == SmoothInit /\ [][SmoothNext]_vars

\* C6: after smooth_vibrato no window of width time_window opened at a note
\* of the result holds two or more notes of the result with a pitch range
\* within cent_tolerance, and a second call on the result returns as many
\* notes as the first.
C6_NoCollapsibleWindowLeft ==
    /\ (pc = "done" /\ run = 1)
       => \A k \in 1..Len(smoothed_notes) :
             ~Collapsible(WindowNotes(smoothed_notes, k - 1, time_window),
                          cent_tolerance)
    /\ (pc = "done" /\ run = 2) => Len(smoothed_notes) = Len(first_result)

(***************************************************************************)
(* The Note Segmenter: the loop of cluster_notes_with_confidence           *)
(* (pitch_extraction.py:179-246) and midi_notes_to_intervals               *)
(* (note_utils.py:42-81).  Both read one frame per iteration; frame k      *)
(* (0-based) is at time k * frame_duration.                                *)
(***************************************************************************)
MaxFrames == 3      \* longest frame sequence
MaxMinDuration == 2 \* min_duration / min_note_length range over 0..MaxMinDuration

FramePitches == {<<60, 1>>, <<301, 5>>, <<65, 1>>}    \* 60.0, 60.2, 65.0
FrameConfidences == {30, 90}                          \* 0.3, 0.9
FrameDurations == {1, 2}
ConfidenceThresholds == {50}      \* note_utils.py:17, the default 0.5
ClusterTolerances == {100}        \* one semitone, in cents

NumFrames == Len(midi_values)

\* time_axis[k], 0-based
TimeAxis(k) == k * frame_duration

\* pitch_extraction.py:187 / note_utils.py:48
Unvoiced(note_val, conf) == conf < confidence_threshold \/ note_val = NaN

\* The duration test left out.
AlwaysLongEnough(duration) == TRUE

\* pitch_extraction.py:190, 214, 237 / note_utils.py:54, 64, 76
LongEnough(duration) == duration >= min_duration

\* pitch_extraction.py:211-212: abs(100 * (note_val - current_note)) > cent_tolerance
PitchChanged(note_val, cur) ==
    Abs(note_val[1] * cur[2] - cur[1] * note_val[2]) * 100
        > cent_tolerance * note_val[2] * cur[2]

\* pitch_extraction.py:230
RunningMean(cur, count, note_val) == WeightedPitch(cur, count, note_val, 1)

\* pitch_extraction.py:191-198, 215-222, 238-245
NoteEvent(start_time, end_time) ==
    [start_time |-> start_time,
     end_time   |-> end_time,
     midi_note  |-> current_note,
     confidence |-> Frac(current_confidence_sum, current_frame_count)]

\* The open note closed at the end of the closing frame instead of its time.
ClosedThroughFrame(end_time) ==
    IF LongEnough(end_time - note_start)
    THEN Append(note_events, NoteEvent(note_start, end_time + frame_duration))
    ELSE note_events

\* The open note closed at end_time: emitted if long enough.
ClosedAt(end_time) ==
    IF LongEnough(end_time - note_start)
    THEN Append(note_events, NoteEvent(note_start, end_time))
    ELSE note_events

\* pitch_extraction.py:236, 242: the last note ends at the last frame's time
StreamEnd == TimeAxis(NumFrames - 1)

\* smooth_window: odd sizes, for which the window is centred on the frame
SmoothWindows == {1, 3}

\* pitch_extraction.py:165: the (1-based) indices of the frames with a pitch
ValidIndices(v) == {x \in 1..Len(v) : v[x] # NaN}

SetMax(S) == CHOOSE x \in S : \A y \in S : y <= x
SetMin(S) == CHOOSE x \in S : \A y \in S : x <= y

\* pitch_extraction.py:167-171: np.interp at index k over the frames with a
\* pitch: the pitch itself at such a frame, the first or the last pitch
\* outside them, and on the line through the two neighbours in between.
InterpAt(v, k) ==
    LET valid == ValidIndices(v)
        below == {x \in valid : x < k}
        above == {x \in valid : x > k}
    IN IF k \in valid THEN v[k]
       ELSE IF below = {} THEN v[SetMin(valid)]
       ELSE IF above = {} THEN v[SetMax(valid)]
       ELSE LET a == SetMax(below)
                b == SetMin(above)
                fa == v[a]
                fb == v[b]
            IN Frac(fa[1] * fb[2] * (b - a)
                      + (fb[1] * fa[2] - fa[1] * fb[2]) * (k - a),
                    fa[2] * fb[2] * (b - a))

midi_values_filled(v) == [k \in 1..Len(v) |-> InterpAt(v, k)]

\* The (0-based) index a median filter in mode "reflect" reads at idx, which
\* may lie outside 0..n-1: (d c b a | a b c d | d c b a).
Reflect(idx, n) ==
    LET m == idx % (2 * n)
    IN IF m < n THEN m ELSE 2 * n - 1 - m

\* The median of an odd number of pitches.
Median(w) ==
    CHOOSE p \in {w[x] : x \in 1..Len(w)} :
        /\ 2 * Cardinality({x \in 1..Len(w) : ~FracLeq(p, w[x])}) < Len(w)
        /\ 2 * Cardinality({x \in 1..Len(w) : ~FracLeq(w[x], p)}) < Len(w)

\* pitch_extraction.py:177: median_filter(v, size), size odd
median_filter(v, size) ==
    [k \in 1..Len(v) |->
        Median([d \in 1..size |->
                   v[Reflect(k - 1 + d - 1 - (size \div 2), Len(v)) + 1]])]

\* pitch_extraction.py:164-177: what the loop reads instead of midi_values
MidiSmooth == median_filter(midi_values_filled(midi_values), smooth_window)

\* pitch_extraction.py:160-184: no frame has a pitch and the function returns
\* [], or the frames are interpolated and filtered and the loop begins
ClusterStart ==
    /\ fn = "cluster"
    /\ pc = "start"
    /\ IF ValidIndices(midi_values) = {}
       THEN /\ fn' = "returned"
            /\ pc' = "done"
       ELSE /\ fn' = fn
            /\ pc' = "loop"
    /\ note_events' = <<>>
    /\ final_note_events' = <<>>
    /\ current_note' = None
    /\ current_confidence_sum' = 0
    /\ current_frame_count' = 0
    /\ UNCHANGED <<note_start, midi_values, confidence_values, frame_duration,
                   confidence_threshold, intervals, smooth_window, notes, i,
                   j, run, first_result, matchVars, mergeVars, smoothVars,
                   pipelineVars>>

SegInit ==
    /\ fn \in {"cluster", "intervals"}
    /\ \E k \in 0..MaxFrames :
          /\ midi_values \in [1..k -> FramePitches \cup {NaN}]
          /\ confidence_values \in [1..k -> FrameConfidences]
    /\ frame_duration \in FrameDurations
    /\ min_duration \in 0..MaxMinDuration
    /\ confidence_threshold \in ConfidenceThresholds
    /\ cent_tolerance \in ClusterTolerances
    /\ current_note = None
    /\ note_start = None
    /\ current_confidence_sum = 0
    /\ current_frame_count = 0
    /\ note_events = <<>>
    /\ intervals = <<>>
    /\ smooth_window \in (IF fn = "cluster" THEN SmoothWindows ELSE {0})
    /\ final_note_events = <<>>
    /\ i = 0
    /\ j = 0
    /\ pc = (IF fn = "cluster" THEN "start" ELSE "loop")
    /\ run = 1
    /\ first_result = <<>>
    /\ notes = <<>>
    /\ sorted_notes = <<>>
    /\ merged_notes = <<>>
    /\ MatchIdle
    /\ SmoothIdle
    /\ PipelineIdle

ClusterFrame == fn = "cluster" /\ pc = "loop" /\ i < NumFrames

\* pitch_extraction.py:187-203: a frame without detection closes the open note
ClusterGap ==
    /\ ClusterFrame
    /\ Unvoiced(MidiSmooth[i + 1], confidence_values[i + 1])
    /\ IF current_note # None
       THEN /\ note_events' = ClosedAt(TimeAxis(i))
            /\ current_note' = None
            /\ current_confidence_sum' = 0
            /\ current_frame_count' = 0
       ELSE UNCHANGED <<note_events, current_note, current_confidence_sum,
                        current_frame_count>>
    /\ i' = i + 1
    /\ UNCHANGED <<note_start, midi_values, confidence_values, frame_duration,
                   confidence_threshold, intervals, fn, notes, j, pc, run,
                   first_result, matchVars, mergeVars, smoothVars,
                   smooth_window, final_note_events, pipelineVars>>

\* pitch_extraction.py:205-209: the frame opens a note
ClusterOpen ==
    /\ ClusterFrame
    /\ ~Unvoiced(MidiSmooth[i + 1], confidence_values[i + 1])
    /\ current_note = None
    /\ current_note' = MidiSmooth[i + 1]
    /\ note_start' = TimeAxis(i)
    /\ current_confidence_sum' = confidence_values[i + 1]
    /\ current_frame_count' = 1
    /\ i' = i + 1
    /\ UNCHANGED <<note_events, midi_values, confidence_values, frame_duration,
                   confidence_threshold, intervals, fn, notes, j, pc, run,
                   first_result, matchVars, mergeVars, smoothVars,
                   smooth_window, final_note_events, pipelineVars>>

\* pitch_extraction.py:211-227: the pitch changed, the open note is closed
\* and the frame opens the next
ClusterChange ==
    /\ ClusterFrame
    /\ ~Unvoiced(MidiSmooth[i + 1], confidence_values[i + 1])
    /\ current_note # None
    /\ PitchChanged(MidiSmooth[i + 1], current_note)
    /\ note_events' = ClosedAt(TimeAxis(i))
    /\ current_note' = MidiSmooth[i + 1]
    /\ note_start' = TimeAxis(i)
    /\ current_confidence_sum' = confidence_values[i + 1]
    /\ current_frame_count' = 1
    /\ i' = i + 1
    /\ UNCHANGED <<midi_values, confidence_values, frame_duration,
                   confidence_threshold, intervals, fn, notes, j, pc, run,
                   first_result, matchVars, mergeVars, smoothVars,
                   smooth_window, final_note_events, pipelineVars>>

\* pitch_extraction.py:228-232: the frame is folded into the open note
ClusterFold ==
    /\ ClusterFrame
    /\ ~Unvoiced(MidiSmooth[i + 1], confidence_values[i + 1])
    /\ current_note # None
    /\ ~PitchChanged(MidiSmooth[i + 1], current_note)
    /\ current_note' = RunningMean(current_note, current_frame_count,
                                   MidiSmooth[i + 1])
    /\ current_confidence_sum' = current_confidence_sum + confidence_values[i + 1]
    /\ current_frame_count' = current_frame_count + 1
    /\ i' = i + 1
    /\ UNCHANGED <<note_events, note_start, midi_values, confidence_values,
                   frame_duration, confidence_threshold, intervals, fn, notes,
                   j, pc, run, first_result, matchVars, mergeVars, smoothVars,
                   smooth_window, final_note_events, pipelineVars>>

\* pitch_extraction.py:234-246: end of stream
ClusterFinish ==
    /\ fn = "cluster"
    /\ pc = "loop"
    /\ ~(i < NumFrames)
    /\ note_events' = IF current_note # None THEN ClosedAt(StreamEnd)
                      ELSE note_events
    /\ pc' = "done"
    /\ UNCHANGED <<current_note, note_start, current_confidence_sum,
                   current_frame_count, midi_values, confidence_values,
                   frame_duration, confidence_threshold, intervals, fn, notes,
                   i, j, run, first_result, matchVars, mergeVars, smoothVars,
                   smooth_window, final_note_events, pipelineVars>>

\* pitch_extraction.py:249: the notes of the loop as (start, end, note)
note_tuples ==
    [k \in 1..Len(note_events) |->
        [start |-> note_events[k].start_time,
         end   |-> note_events[k].end_time,
         note  |-> note_events[k].midi_note]]

\* pitch_extraction.py:249-253: merge_short_notes is called on the notes of
\* the loop, with min_note_length and cent_tolerance
ClusterCallMerge ==
    /\ fn = "cluster"
    /\ pc = "done"
    /\ notes' = note_tuples
    /\ fn' = "merge_short_notes"
    /\ pc' = "start"
    /\ UNCHANGED <<i, j, run, first_result, midi_values, confidence_values,
                   frame_duration, confidence_threshold, current_note,
                   note_start, current_confidence_sum, current_frame_count,
                   note_events, intervals, smooth_window, final_note_events,
                   matchVars, mergeVars, smoothVars, pipelineVars>>

\* pitch_extraction.py:253: one step of merge_short_notes
ClusterMergeStep ==
    /\ fn = "merge_short_notes"
    /\ \/ MergeStart
       \/ MergeAccept
       \/ MergeIntoPrev
       \/ MergeIntoNext
       \/ MergeDrop
       \/ MergeReturn

\* pitch_extraction.py:256: smooth_vibrato is called on the merged notes, with
\* vibrato_window and vibrato_tolerance
ClusterCallSmooth ==
    /\ fn = "merge_short_notes"
    /\ pc = "done"
    /\ notes' = merged_notes
    /\ time_window' \in TimeWindows
    /\ cent_tolerance' \in VibratoTolerances
    /\ fn' = "smooth_vibrato"
    /\ pc' = "start"
    /\ UNCHANGED <<i, j, run, first_result, midi_values, confidence_values,
                   frame_duration, confidence_threshold, current_note,
                   note_start, current_confidence_sum, current_frame_count,
                   note_events, intervals, smooth_window, final_note_events,
                   min_duration, sorted_notes, merged_notes, smoothed_notes,
                   matchVars, pipelineVars>>

\* pitch_extraction.py:256: one step of smooth_vibrato
ClusterSmoothStep ==
    /\ fn = "smooth_vibrato"
    /\ \/ SmoothStart
       \/ SmoothCollapse
       \/ SmoothKeep
       \/ SmoothReturn

\* pitch_extraction.py:266: the confidence given to every returned note, 1.0
\* (in hundredths)
FinalConfidence == <<100, 1>>

\* pitch_extraction.py:258-275: the notes are returned as NoteEvents
ClusterReturn ==
    /\ fn = "smooth_vibrato"
    /\ pc = "done"
    /\ final_note_events' =
          [k \in 1..Len(smoothed_notes) |->
              [start_time |-> smoothed_notes[k].start,
               end_time   |-> smoothed_notes[k].end,
               midi_note  |-> smoothed_notes[k].note,
               confidence |-> FinalConfidence]]
    /\ fn' = "returned"
    /\ UNCHANGED <<midi_values, confidence_values, frame_duration,
                   confidence_threshold, current_note, note_start,
                   current_confidence_sum, current_frame_count, note_events,
                   intervals, smooth_window, commonVars, matchVars, mergeVars,
                   smoothVars, pipelineVars>>

\* note_utils.py:52: abs(note - current_note) >= 0.5, a new note from half a
\* semitone on
HalfSemitoneChange(note_val, cur) ==
    Abs(note_val[1] * cur[2] - cur[1] * note_val[2]) * 2 >= note_val[2] * cur[2]

\* round(x) of Python 3 for x >= 0: to the nearest integer, a tie to the even
Round(p) ==
    LET q == p[1] \div p[2]
        r == p[1] % p[2]
    IN IF 2 * r < p[2] THEN q
       ELSE IF 2 * r > p[2] THEN q + 1
       ELSE IF q % 2 = 0 THEN q ELSE q + 1

\* note_utils.py:53-59, 63-69, 75-81: the open note closed at frame `frame`
IntervalClosedAt(frame) ==
    IF LongEnough((frame - note_start) * frame_duration)
    THEN Append(intervals,
                [start |-> note_start * frame_duration,
                 end   |-> frame * frame_duration,
                 note  |-> Round(current_note)])
    ELSE intervals

IntervalsFrame == fn = "intervals" /\ pc = "loop" /\ i < NumFrames

\* note_utils.py:48-51: the frame opens a note
IntervalsOpen ==
    /\ IntervalsFrame
    /\ ~Unvoiced(midi_values[i + 1], confidence_values[i + 1])
    /\ current_note = None
    /\ current_note' = midi_values[i + 1]
    /\ note_start' = i
    /\ i' = i + 1
    /\ UNCHANGED <<intervals, current_confidence_sum, current_frame_count,
                   note_events, midi_values, confidence_values, frame_duration,
                   confidence_threshold, fn, notes, j, pc, run, first_result,
                   matchVars, mergeVars, smoothVars,
                   smooth_window, final_note_events, pipelineVars>>

\* note_utils.py:52-61: the pitch changed, the open note is closed and the
\* frame opens the next
IntervalsChange ==
    /\ IntervalsFrame
    /\ ~Unvoiced(midi_values[i + 1], confidence_values[i + 1])
    /\ current_note # None
    /\ HalfSemitoneChange(midi_values[i + 1], current_note)
    /\ intervals' = IntervalClosedAt(i)
    /\ current_note' = midi_values[i + 1]
    /\ note_start' = i
    /\ i' = i + 1
    /\ UNCHANGED <<current_confidence_sum, current_frame_count, note_events,
                   midi_values, confidence_values, frame_duration,
                   confidence_threshold, fn, notes, j, pc, run, first_result,
                   matchVars, mergeVars, smoothVars,
                   smooth_window, final_note_events, pipelineVars>>

\* note_utils.py:48-52: the frame continues the open note, which keeps the
\* pitch of its first frame
IntervalsContinue ==
    /\ IntervalsFrame
    /\ ~Unvoiced(midi_values[i + 1], confidence_values[i + 1])
    /\ current_note # None
    /\ ~HalfSemitoneChange(midi_values[i + 1], current_note)
    /\ i' = i + 1
    /\ UNCHANGED <<intervals, current_note, note_start, current_confidence_sum,
                   current_frame_count, note_events, midi_values,
                   confidence_values, frame_duration, confidence_threshold, fn,
                   notes, j, pc, run, first_result, matchVars, mergeVars,
                   smoothVars,
                   smooth_window, final_note_events, pipelineVars>>

\* note_utils.py:62-71: a frame without detection closes the open note
IntervalsGap ==
    /\ IntervalsFrame
    /\ Unvoiced(midi_values[i + 1], confidence_values[i + 1])
    /\ IF current_note # None
       THEN /\ intervals' = IntervalClosedAt(i)
            /\ current_note' = None
            /\ note_start' = None
       ELSE UNCHANGED <<intervals, current_note, note_start>>
    /\ i' = i + 1
    /\ UNCHANGED <<current_confidence_sum, current_frame_count, note_events,
                   midi_values, confidence_values, frame_duration,
                   confidence_threshold, fn, notes, j, pc, run, first_result,
                   matchVars, mergeVars, smoothVars,
                   smooth_window, final_note_events, pipelineVars>>

\* note_utils.py:73-81, 95: end of stream
IntervalsFinish ==
    /\ fn = "intervals"
    /\ pc = "loop"
    /\ ~(i < NumFrames)
    /\ intervals' = IF current_note # None THEN IntervalClosedAt(NumFrames)
                    ELSE intervals
    /\ pc' = "done"
    /\ UNCHANGED <<current_note, note_start, current_confidence_sum,
                   current_frame_count, note_events, midi_values,
                   confidence_values, frame_duration, confidence_threshold, fn,
                   notes, i, j, run, first_result, matchVars, mergeVars,
                   smoothVars,
                   smooth_window, final_note_events, pipelineVars>>

SegNext ==
    \/ ClusterStart
    \/ ClusterGap
    \/ ClusterOpen
    \/ ClusterChange
    \/ ClusterFold
    \/ ClusterFinish
    \/ ClusterCallMerge
    \/ ClusterMergeStep
    \/ ClusterCallSmooth
    \/ ClusterSmoothStep
    \/ ClusterReturn
    \/ IntervalsOpen
    \/ IntervalsChange
    \/ IntervalsContinue
    \/ IntervalsGap
    \/ IntervalsFinish

SpecSeg == SegInit /\ [][SegNext]_vars

C21_NotesOrderedAndDisjoint ==
    /\ \A k \in 1..(Len(note_events) - 1) :
          /\ note_events[k].start_time <= note_events[k + 1].start_time
          /\ note_events[k].end_time <= note_events[k + 1].start_time
    /\ \A k \in 1..(Len(intervals) - 1) :
          /\ intervals[k].start <= intervals[k + 1].start
          /\ intervals[k].end <= intervals[k + 1].start

\* Either loop has finished with two notes that touch: the frame whose pitch
\* change closed the first opened the second.
C21_Witness ==
    /\ pc = "done"
    /\ \/ /\ fn = "cluster"
          /\ Len(note_events) = 2
          /\ note_events[1].end_time = note_events[2].start_time
       \/ /\ fn = "intervals"
          /\ Len(intervals) >= 2
          /\ intervals[1].end = intervals[2].start

(***************************************************************************)
(* The loop of cluster_notes_with_confidence alone, over slowly rising     *)
(* pitches, read as they are (smooth_window = 1).                          *)
(***************************************************************************)
MaxDriftFrames == 4

DriftPitches == {<<60, 1>>, <<61, 1>>, <<123, 2>>, <<309, 5>>}  \* 60, 61, 61.5, 61.8

DriftInit ==
    /\ fn = "cluster"
    /\ \E k \in 0..MaxDriftFrames :
          /\ midi_values \in [1..k -> DriftPitches]
          /\ confidence_values \in [1..k -> FrameConfidences]
    /\ frame_duration = 1
    /\ min_duration = 1
    /\ confidence_threshold \in ConfidenceThresholds
    /\ cent_tolerance \in ClusterTolerances
    /\ smooth_window = 1
    /\ current_note = None
    /\ note_start = None
    /\ current_confidence_sum = 0
    /\ current_frame_count = 0
    /\ note_events = <<>>
    /\ final_note_events = <<>>
    /\ intervals = <<>>
    /\ i = 0
    /\ j = 0
    /\ pc = "start"
    /\ run = 1
    /\ first_result = <<>>
    /\ notes = <<>>
    /\ sorted_notes = <<>>
    /\ merged_notes = <<>>
    /\ MatchIdle
    /\ SmoothIdle
    /\ PipelineIdle

DriftNext ==
    \/ ClusterStart
    \/ ClusterGap
    \/ ClusterOpen
    \/ ClusterChange
    \/ ClusterFold
    \/ ClusterFinish

SpecDrift == DriftInit /\ [][DriftNext]_vars

\* C18: whenever the loop emits a note, every frame folded into it (the
\* frames from the note's first frame to the one before the frame that
\* closes it, or to the last frame at the end of the stream) has a pitch
\* within cent_tolerance of the pitch the note is emitted with.
C18_FramesWithinToleranceOfNotePitch ==
    [][(fn = "cluster" /\ pc = "loop" /\ Len(note_events') > Len(note_events))
        => \A k \in (note_start \div frame_duration)..(i - 1) :
              WithinTolerance(MidiSmooth[k + 1], Last(note_events').midi_note,
                              cent_tolerance)]_vars

\* The loop of a segmenter is at a frame whose pitch is undefined.
AtUndefinedFrame ==
    /\ fn \in {"cluster", "intervals"}
    /\ pc = "loop"
    /\ i < NumFrames
    /\ midi_values[i + 1] = NaN

\* Every frame is undefined or below the confidence threshold.
NoDetectionAtAll ==
    \A k \in 1..NumFrames :
        midi_values[k] = NaN \/ confidence_values[k] < confidence_threshold

\* C19: in both segmenters the step at a frame with an undefined pitch,
\* whatever its confidence, leaves no note open and folds nothing, and a
\* note that was open is emitted only if it is long enough; frames that are
\* all undefined or below the threshold give no note at all.
C19_UndefinedPitchIsNoDetection ==
    /\ [][AtUndefinedFrame
           => /\ current_note' = None
              /\ i' = i + 1
              /\ Len(note_events') <= Len(note_events) + 1
              /\ Len(intervals') <= Len(intervals) + 1]_vars
    /\ []((fn \in {"cluster", "intervals", "returned"} /\ NoDetectionAtAll)
            => /\ note_events = <<>>
               /\ intervals = <<>>
               /\ final_note_events = <<>>)

RECURSIVE SumSeq(_)
SumSeq(q) == IF q = <<>> THEN 0 ELSE q[1] + SumSeq(Tail(q))

\* The loop folded every frame into one note, which is the one note returned.
AllFramesInOneNote ==
    /\ fn = "returned"
    /\ NumFrames > 1
    /\ current_frame_count = NumFrames
    /\ Len(note_events) = 1
    /\ Len(final_note_events) = 1

\* C20: a returned NoteEvent carries the mean of the confidences of the
\* frames folded into it; so when all frames were folded into the one note
\* that is returned, its confidence is the sum of all the frames'
\* confidences over their number.
C20_ConfidenceIsFrameMean ==
    AllFramesInOneNote
    => final_note_events[1].confidence =
          Frac(SumSeq(confidence_values), NumFrames)

\* The frames of the example: (0.0, 60.0, 0.9), (0.1, 60.2, 0.9),
\* (0.2, 65.0, 0.9) at hop 0.1 s (2 ticks), min-duration 0.05 s (1 tick).
ExampleFrames ==
    /\ midi_values = <<<<60, 1>>, <<301, 5>>, <<65, 1>>>>
    /\ confidence_values = <<90, 90, 90>>
    /\ frame_duration = 2
    /\ min_duration = 1
    /\ confidence_threshold = 50
    /\ cent_tolerance = 100

\* C8: at the end of the stream the open note is closed as in mid-stream,
\* ending one hop after its last frame: the example's three frames give
\* exactly two notes, 0.0-0.2 at the mean pitch 60.1 of the first two frames
\* and 0.2-0.3 at pitch 65.0.
C8_EndOfStreamExample ==
    (fn = "cluster" /\ pc = "done" /\ ExampleFrames)
    => /\ Len(note_events) = 2
       /\ note_events[1].start_time = 0
       /\ note_events[1].end_time = 4
       /\ note_events[1].midi_note = <<601, 10>>
       /\ note_events[2].start_time = 4
       /\ note_events[2].end_time = 6
       /\ note_events[2].midi_note = <<65, 1>>

(***************************************************************************)
(* export_segments and the three serializers it hands the records to       *)
(* (generate_midi_with_lyrics.py).  A written file is the pair of its kind *)
(* and its content.                                                        *)
(***************************************************************************)
MaxExportTime == 2   \* times of the exported records range over 0..MaxExportTime
MaxExported == 2     \* longest list of records handed to export_segments

KnownFormats == {"midi", "json", "csv"}
Formats == KnownFormats \cup {"xml", "MIDI"}

ExportTimes == 0..MaxExportTime
ExportIntervals == {<<a, b>> \in ExportTimes \X ExportTimes : a < b}

\* The records the aligner hands over: a segment and a note that share time;
\* the note is the integer midi_notes_to_intervals rounds to.
ExportRecords ==
    {MatchedRecord([start |-> x[1][1], end |-> x[1][2], text |-> x[3]],
                   [start |-> x[2][1], end |-> x[2][2], note |-> 67]) :
        x \in {y \in ExportIntervals \X ExportIntervals \X Texts :
                 Max2(y[1][1], y[2][1]) < Min2(y[1][2], y[2][2])}}

MidiMinDuration == 1

\* generate_midi_with_lyrics.py:49-78: the notes and texts put on the tracks;
\* a record with a negative time, a duration under min_duration or a note
\* outside 0..127 is skipped.
MidiTrack(m) ==
    {[note     |-> m[k].note_segment.note,
      start    |-> m[k].overlap_start,
      duration |-> m[k].overlap_end - m[k].overlap_start,
      text     |-> m[k].text_segment.text] :
        k \in {x \in 1..Len(m) :
                 /\ ~(m[x].overlap_start < 0 \/ m[x].overlap_end < 0)
                 /\ ~(m[x].overlap_end - m[x].overlap_start < MidiMinDuration)
                 /\ 0 <= m[x].note_segment.note
                 /\ m[x].note_segment.note <= 127}}

\* generate_midi_with_lyrics.py:14-86
create_midi_with_lyrics(m) == <<"midi", MidiTrack(m)>>

\* generate_midi_with_lyrics.py:88-108
export_to_json(m) == <<"json", [segments |-> m, total_segments |-> Len(m)]>>

\* generate_midi_with_lyrics.py:110-138: one row per record
export_to_csv(m) ==
    <<"csv", [k \in 1..Len(m) |->
                [start_time |-> m[k].overlap_start,
                 end_time   |-> m[k].overlap_end,
                 text       |-> m[k].text_segment.text,
                 note       |-> m[k].note_segment.note,
                 note_start |-> m[k].note_segment.start,
                 note_end   |-> m[k].note_segment.end]]>>

\* Any other value taken as the default format.
SerializerOrDefault(fmt) ==
    IF fmt = "json" THEN "export_to_json"
    ELSE IF fmt = "csv" THEN "export_to_csv"
    ELSE "create_midi_with_lyrics"

\* generate_midi_with_lyrics.py:157-164: the serializer the if/elif chain
\* picks, "none" in the else branch
SerializerFor(fmt) ==
    IF fmt = "midi" THEN "create_midi_with_lyrics"
    ELSE IF fmt = "json" THEN "export_to_json"
    ELSE IF fmt = "csv" THEN "export_to_csv"
    ELSE "none"

ExportInit ==
    /\ \E k \in 0..MaxExported : matched \in [1..k -> ExportRecords]
    /\ format \in Formats
    /\ stage = "export"
    /\ raised = "none"
    /\ calls = <<>>
    /\ output_file = None
    /\ stages_run = <<>>
    /\ stderr = <<>>
    /\ exit_code = -1
    /\ notes = <<>>
    /\ i = 0
    /\ j = 0
    /\ pc = "done"
    /\ run = 1
    /\ first_result = <<>>
    /\ segments = <<>>
    /\ segments_sorted = <<>>
    /\ notes_sorted = <<>>
    /\ MergeIdle
    /\ SmoothIdle
    /\ SegIdle

\* generate_midi_with_lyrics.py:157-158
ExportMidi ==
    /\ stage = "export"
    /\ SerializerFor(format) = "create_midi_with_lyrics"
    /\ calls' = Append(calls, "create_midi_with_lyrics")
    /\ output_file' = create_midi_with_lyrics(matched)
    /\ stage' = "exported"
    /\ UNCHANGED <<raised, format, stages_run, stderr, exit_code, commonVars,
                   matchVars, mergeVars, smoothVars, segVars>>

\* generate_midi_with_lyrics.py:159-160
ExportJson ==
    /\ stage = "export"
    /\ SerializerFor(format) = "export_to_json"
    /\ calls' = Append(calls, "export_to_json")
    /\ output_file' = export_to_json(matched)
    /\ stage' = "exported"
    /\ UNCHANGED <<raised, format, stages_run, stderr, exit_code, commonVars,
                   matchVars, mergeVars, smoothVars, segVars>>

\* generate_midi_with_lyrics.py:161-162
ExportCsv ==
    /\ stage = "export"
    /\ SerializerFor(format) = "export_to_csv"
    /\ calls' = Append(calls, "export_to_csv")
    /\ output_file' = export_to_csv(matched)
    /\ stage' = "exported"
    /\ UNCHANGED <<raised, format, stages_run, stderr, exit_code, commonVars,
                   matchVars, mergeVars, smoothVars, segVars>>

\* generate_midi_with_lyrics.py:163-164: raise ValueError
ExportUnsupported ==
    /\ stage = "export"
    /\ SerializerFor(format) = "none"
    /\ raised' = "ValueError"
    /\ stage' = "raised"
    /\ UNCHANGED <<format, calls, output_file, stages_run, stderr, exit_code,
                   commonVars, matchVars, mergeVars, smoothVars, segVars>>

ExportNext == ExportMidi \/ ExportJson \/ ExportCsv \/ ExportUnsupported

SpecExport == ExportInit /\ [][ExportNext]_vars

\* C11: once export_segments is over, a format other than "midi", "json" and
\* "csv" has ended in ValueError with no serializer called and nothing
\* written, and each of the three known formats has had its own serializer
\* called exactly once, and no other.
C11_UnknownFormatIsAnError ==
    stage # "export"
    => /\ format \notin KnownFormats
          => raised = "ValueError" /\ calls = <<>> /\ output_file = None
       /\ format \in KnownFormats => raised = "none" /\ output_file # None
       /\ format = "midi" => calls = <<"create_midi_with_lyrics">>
       /\ format = "json" => calls = <<"export_to_json">>
       /\ format = "csv" => calls = <<"export_to_csv">>

C11_Witness ==
    /\ stage = "raised"
    /\ format = "MIDI"
    /\ Len(matched) = 2
    /\ raised = "ValueError"

(***************************************************************************)
(* process_audio (main.py:74-145): transcription, pitch extraction,        *)
(* interval generation, matching and export, in one try block.  stage is   *)
(* the stage that runs, or is about to; inside the interval generation and *)
(* the matching, pc is the position in the function called.  The pitch     *)
(* source extract_pitch_librosa is imported by main.py and is not part of  *)
(* pitch_extraction.py: it is taken from the interface of spec.md,         *)
(* section 6.                                                              *)
(***************************************************************************)
MaxSegments == 1     \* longest segment list the text source returns here

StageOrder == <<"transcription", "pitch", "intervals", "matching", "export">>

\* main.py:64-65: choices=["midi", "json", "csv"]
OutputFormats == KnownFormats

\* main.py:61, in ticks
PipelineMinDurations == {1, 2}

\* The frames a pitch source returns: a pitch with its voiced flag (1.0 or
\* 0.0, in hundredths), an undefined pitch being unvoiced.
PitchFrames == {<<<<60, 1>>, 100>>, <<<<65, 1>>, 100>>, <<<<60, 1>>, 0>>,
                <<NaN, 0>>}

PipelineInit ==
    /\ stage = "transcription"
    /\ raised = "none"
    /\ format \in OutputFormats
    /\ min_duration \in PipelineMinDurations
    /\ calls = <<>>
    /\ output_file = None
    /\ stages_run = <<>>
    /\ stderr = <<>>
    /\ exit_code = -1
    /\ notes = <<>>
    /\ i = 0
    /\ j = 0
    /\ pc = "idle"
    /\ run = 1
    /\ first_result = <<>>
    /\ MatchIdle
    /\ cent_tolerance = 0
    /\ sorted_notes = <<>>
    /\ merged_notes = <<>>
    /\ SmoothIdle
    /\ SegIdle

\* audio_to_text.py:105-107: the audio file is missing
TranscribeFileNotFound ==
    /\ stage = "transcription"
    /\ stages_run' = Append(stages_run, "transcription")
    /\ raised' = "FileNotFoundError"
    /\ stage' = "raised"
    /\ UNCHANGED <<format, calls, output_file, stderr, exit_code, commonVars,
                   matchVars, mergeVars, smoothVars, segVars>>

\* audio_to_text.py:109-126: preprocessing, model loading or transcription
\* raises
TranscribeFails ==
    /\ stage = "transcription"
    /\ stages_run' = Append(stages_run, "transcription")
    /\ raised' = "AudioTranscriptionError"
    /\ stage' = "raised"
    /\ UNCHANGED <<format, calls, output_file, stderr, exit_code, commonVars,
                   matchVars, mergeVars, smoothVars, segVars>>

\* The test for an empty segment list left out.
SegmentsNeverMissing(segs) == FALSE

\* main.py:98: if not segments
NoSegments(segs) == segs = <<>>

\* main.py:86-99: the text source returns its segments
TranscribeReturns ==
    /\ stage = "transcription"
    /\ stages_run' = Append(stages_run, "transcription")
    /\ \E k \in 0..MaxSegments : segments' \in [1..k -> SegmentInputs]
    /\ IF NoSegments(segments')
       THEN /\ raised' = "AudioTranscriptionError"
            /\ stage' = "raised"
       ELSE /\ raised' = raised
            /\ stage' = "pitch"
    /\ UNCHANGED <<format, calls, output_file, stderr, exit_code, commonVars,
                   segments_sorted, notes_sorted, matched, mergeVars,
                   smoothVars, segVars>>

\* main.py:103-107: the pitch source fails
ExtractPitchFails ==
    /\ stage = "pitch"
    /\ stages_run' = Append(stages_run, "pitch")
    /\ raised' = "Exception"
    /\ stage' = "raised"
    /\ UNCHANGED <<format, calls, output_file, stderr, exit_code, commonVars,
                   matchVars, mergeVars, smoothVars, segVars>>

\* main.py:103-107: the pitch source returns (midi_notes, voiced_flags, sr);
\* one frame lasts hop_length / sr, here one tick
ExtractPitchReturns ==
    /\ stage = "pitch"
    /\ stages_run' = Append(stages_run, "pitch")
    /\ \E k \in 0..MaxFrames :
          \E frames \in [1..k -> PitchFrames] :
              /\ midi_values' = [x \in 1..k |-> frames[x][1]]
              /\ confidence_values' = [x \in 1..k |-> frames[x][2]]
    /\ frame_duration' = 1
    /\ stage' = "intervals"
    /\ pc' = "start"
    /\ UNCHANGED <<raised, format, calls, output_file, stderr, exit_code,
                   notes, i, j, run, first_result, matchVars, mergeVars,
                   smoothVars, confidence_threshold, current_note, note_start,
                   current_confidence_sum, current_frame_count, note_events,
                   intervals, fn,
                   smooth_window, final_note_events>>

\* main.py:111-116, note_utils.py:17, 42-45: midi_notes_to_intervals is
\* called, with the default confidence_threshold 0.5
PipelineIntervalsCall ==
    /\ stage = "intervals"
    /\ pc = "start"
    /\ stages_run' = Append(stages_run, "intervals")
    /\ fn' = "intervals"
    /\ confidence_threshold' = 50
    /\ intervals' = <<>>
    /\ current_note' = None
    /\ note_start' = None
    /\ i' = 0
    /\ pc' = "loop"
    /\ UNCHANGED <<stage, raised, format, calls, output_file, stderr,
                   exit_code, notes, j, run, first_result, matchVars,
                   mergeVars, smoothVars, midi_values, confidence_values,
                   frame_duration, current_confidence_sum,
                   current_frame_count, note_events,
                   smooth_window, final_note_events>>

\* main.py:111-116: one step of midi_notes_to_intervals
PipelineIntervalsOpen == stage = "intervals" /\ IntervalsOpen
PipelineIntervalsChange == stage = "intervals" /\ IntervalsChange
PipelineIntervalsContinue == stage = "intervals" /\ IntervalsContinue
PipelineIntervalsGap == stage = "intervals" /\ IntervalsGap
PipelineIntervalsFinish == stage = "intervals" /\ IntervalsFinish

\* main.py:111, 120: note_intervals is handed to match_segments_and_notes
PipelineMatchCall ==
    /\ stage = "intervals"
    /\ pc = "done"
    /\ stages_run' = Append(stages_run, "matching")
    /\ notes' = intervals
    /\ stage' = "matching"
    /\ pc' = "start"
    /\ UNCHANGED <<raised, format, calls, output_file, stderr, exit_code,
                   i, j, run, first_result, matchVars, mergeVars, smoothVars,
                   segVars>>

\* main.py:120: one step of match_segments_and_notes
PipelineMatchStart == stage = "matching" /\ MatchStart
PipelineMatchStep == stage = "matching" /\ MatchStep
PipelineMatchReturn == stage = "matching" /\ MatchReturn

\* main.py:120-136: matched_segments is handed to export_segments
PipelineExportCall ==
    /\ stage = "matching"
    /\ pc = "done"
    /\ stages_run' = Append(stages_run, "export")
    /\ stage' = "export"
    /\ UNCHANGED <<raised, format, calls, output_file, stderr, exit_code,
                   commonVars, matchVars, mergeVars, smoothVars, segVars>>

\* main.py:138: the try block is through
ProcessReturn ==
    /\ stage = "exported"
    /\ exit_code' = 0
    /\ stage' = "returned"
    /\ UNCHANGED <<raised, format, calls, output_file, stages_run, stderr,
                   commonVars, matchVars, mergeVars, smoothVars, segVars>>

\* main.py:140-145: either except clause reports the error and exits
ProcessExcept ==
    /\ stage = "raised"
    /\ stderr' = Append(stderr, raised)
    /\ exit_code' = 1
    /\ stage' = "exit"
    /\ UNCHANGED <<raised, format, calls, output_file, stages_run,
                   commonVars, matchVars, mergeVars, smoothVars, segVars>>

PipelineNext ==
    \/ TranscribeFileNotFound
    \/ TranscribeFails
    \/ TranscribeReturns
    \/ ExtractPitchFails
    \/ ExtractPitchReturns
    \/ PipelineIntervalsCall
    \/ PipelineIntervalsOpen
    \/ PipelineIntervalsChange
    \/ PipelineIntervalsContinue
    \/ PipelineIntervalsGap
    \/ PipelineIntervalsFinish
    \/ PipelineMatchCall
    \/ PipelineMatchStart
    \/ PipelineMatchStep
    \/ PipelineMatchReturn
    \/ PipelineExportCall
    \/ ExportMidi
    \/ ExportJson
    \/ ExportCsv
    \/ ProcessReturn
    \/ ProcessExcept

SpecPipeline == PipelineInit /\ [][PipelineNext]_vars

\* The stages entered so far are the first ones of the fixed order.
InStageOrder ==
    /\ Len(stages_run) <= Len(StageOrder)
    /\ \A k \in 1..Len(stages_run) : stages_run[k] = StageOrder[k]

\* C12: the stages are entered in the order transcription, pitch extraction,
\* interval generation, matching, export.  When the text source has failed
\* or returned no segment, transcription is the only stage entered, nothing
\* is exported, and the run ends with one error report and exit code 1.  A
\* serializer is called only after all five stages were entered with no
\* error raised.
C12_TextFailureStopsThePipeline ==
    /\ InStageOrder
    /\ (stage # "transcription" /\ segments = <<>>)
       => /\ raised \in {"FileNotFoundError", "AudioTranscriptionError"}
          /\ stages_run = <<"transcription">>
          /\ calls = <<>>
          /\ output_file = None
          /\ stage \in {"raised", "exit"}
    /\ stage = "exit" => stderr = <<raised>> /\ exit_code = 1
    /\ stage # "exit" => stderr = <<>>
    /\ "export" \in SeqToSet(stages_run)
       => stages_run = StageOrder /\ raised = "none" /\ segments # <<>>
    /\ calls # <<>> => "export" \in SeqToSet(stages_run)

C12_Witness ==
    /\ stage = "exit"
    /\ raised = "AudioTranscriptionError"
    /\ stages_run = <<"transcription">>
    /\ stderr = <<"AudioTranscriptionError">>
    /\ exit_code = 1

\* The pitch source has returned and none of its frames is voiced.
NoVoicedFrame ==
    /\ "pitch" \in SeqToSet(stages_run)
    /\ stage # "pitch"
    /\ raised = "none"
    /\ midi_values # <<>>
    /\ \A k \in 1..Len(midi_values) :
          midi_values[k] = NaN \/ confidence_values[k] < 50

\* C13: when the pitch source returns no voiced frame at all, neither
\* matching nor export is entered, no file is written, and the run ends with
\* an error report and exit code 1.
C13_NoVoicedFrameStopsThePipeline ==
    NoVoicedFrame
    => /\ "matching" \notin SeqToSet(stages_run)
       /\ "export" \notin SeqToSet(stages_run)
       /\ output_file = None
       /\ stage # "returned"

====
